---------------------------- MODULE Spec2Model ----------------------------
(***************************************************************************)
(* Model of src/app.py: the price extraction (extract_prices_from_pdf and  *)
(* its closure flush_block) and the photo matcher (normalize_code,         *)
(* extract_photo_norm_code, match_photos_to_prices).                       *)
(*                                                                         *)
(* A Python str is a sequence of one-character strings.  The character     *)
(* "U+0663" stands for ARABIC-INDIC DIGIT THREE: a decimal digit for the   *)
(* regex class \d of a str pattern, but not a member of [0-9].             *)
(* An optional value (None or x) is <<>> or <<x>>.                         *)
(***************************************************************************)
EXTENDS Integers, Sequences, FiniteSets, TLC

VARIABLES
    pc,             \* which call is running and where it stands
    source,         \* extract_prices_from_pdf: the text lines read so far
    current_block,  \* extract_prices_from_pdf: current_block
    items,          \* extract_prices_from_pdf: items (dict in insertion order)
    price_df,       \* the DataFrame returned by extract_prices_from_pdf
    photo_names,    \* match_photos_to_prices: the photo names iterated so far
    rows,           \* match_photos_to_prices: rows
    trace,          \* per photo: norm, whether the trim block ran, the candidates looked up
    fn_name,        \* the helper under call (pure-function specification)
    fn_in,          \* its argument
    fn_out          \* the values it returned, in call order

vars == <<pc, source, current_block, items, price_df, photo_names, rows,
          trace, fn_name, fn_in, fn_out>>

(***************************************************************************)
(* Bounds of the model.                                                    *)
(***************************************************************************)
MaxLines == 3
MaxCatalogLines == 2
MaxPhotos == 2
MaxNameLen == 4

(***************************************************************************)
(* Characters.                                                             *)
(***************************************************************************)
AsciiDigits == {"0", "1", "2", "3", "4", "5", "6", "7", "8", "9"}
UnicodeDigits == AsciiDigits \cup {"U+0663"}
UpperLetters == {"A", "B", "C", "D", "E", "F", "G", "H", "I", "J", "K", "L", "M",
                 "N", "O", "P", "Q", "R", "S", "T", "U", "V", "W", "X", "Y", "Z"}
LowerLetters == {"a", "b", "c", "d", "e", "f", "g", "h", "i", "j", "k", "l", "m",
                 "n", "o", "p", "q", "r", "s", "t", "u", "v", "w", "x", "y", "z"}
AsciiLetters == UpperLetters \cup LowerLetters
WordChars == UnicodeDigits \cup AsciiLetters \cup {"_"}
Whitespace == {" ", "\t"}

None == <<>>
Some(x) == <<x>>

SeqsUpTo(S, n) == UNION {[1..k -> S] : k \in 0..n}

(***************************************************************************)
(* normalize_code: re.sub(r"[^0-9]", "", str(code)).                       *)
(***************************************************************************)
\* Variant: only the run of digits at the start of the string.
RECURSIVE normalize_code_leading_run(_)
normalize_code_leading_run(code) ==
    IF code = <<>> \/ Head(code) \notin AsciiDigits THEN <<>>
    ELSE <<Head(code)>> \o normalize_code_leading_run(Tail(code))

\* Variant: the digits, less one leading zero.
normalize_code_lstrip_zero(code) ==
    LET d == SelectSeq(code, LAMBDA c : c \in AsciiDigits)
    IN  IF d # <<>> /\ Head(d) = "0" THEN Tail(d) ELSE d

RECURSIVE normalize_code(_)
normalize_code(code) ==
    IF code = <<>> THEN <<>>
    ELSE IF Head(code) \in AsciiDigits
        THEN <<Head(code)>> \o normalize_code(Tail(code))
        ELSE normalize_code(Tail(code))

(***************************************************************************)
(* str.rfind / str.find, 1-based, 0 when the character does not occur.     *)
(***************************************************************************)
rfind(p, c) ==
    IF \E i \in 1..Len(p) : p[i] = c
    THEN CHOOSE i \in 1..Len(p) : p[i] = c /\ \A j \in (i + 1)..Len(p) : p[j] # c
    ELSE 0

find(p, c) ==
    IF \E i \in 1..Len(p) : p[i] = c
    THEN CHOOSE i \in 1..Len(p) : p[i] = c /\ \A j \in 1..(i - 1) : p[j] # c
    ELSE 0

(***************************************************************************)
(* os.path.splitext(filename)[0] (posixpath: sep "/", extsep "."): the     *)
(* name is cut at its last dot when that dot comes after the last "/" and  *)
(* some character between them is not a dot.                               *)
(***************************************************************************)
splitext_root(p) ==
    LET sepIndex == rfind(p, "/")
        dotIndex == rfind(p, ".")
    IN  IF /\ dotIndex > sepIndex
           /\ \E k \in (sepIndex + 1)..(dotIndex - 1) : p[k] # "."
        THEN SubSeq(p, 1, dotIndex - 1)
        ELSE p

(***************************************************************************)
(* stem.split("-")[0]: everything before the first "-".                    *)
(***************************************************************************)
split_first(stem) ==
    LET h == find(stem, "-")
    IN  IF h = 0 THEN stem ELSE SubSeq(stem, 1, h - 1)

extract_photo_norm_code(filename) ==
    normalize_code(split_first(splitext_root(filename)))

(***************************************************************************)
(* Regular-expression helpers.                                             *)
(***************************************************************************)
\* Length of the longest run of characters of S that starts at position i.
RunLen(s, i, S) ==
    IF i > Len(s) \/ s[i] \notin S THEN 0
    ELSE CHOOSE n \in 1..(Len(s) - i + 1) :
            /\ \A k \in i..(i + n - 1) : s[k] \in S
            /\ (i + n > Len(s) \/ s[i + n] \notin S)

\* str.strip()
strip(s) ==
    IF \A i \in 1..Len(s) : s[i] \in Whitespace THEN <<>>
    ELSE LET a == CHOOSE i \in 1..Len(s) :
                    s[i] \notin Whitespace /\ \A j \in 1..(i - 1) : s[j] \in Whitespace
             b == CHOOSE i \in 1..Len(s) :
                    s[i] \notin Whitespace /\ \A j \in (i + 1)..Len(s) : s[j] \in Whitespace
         IN  SubSeq(s, a, b)

\* str.rstrip("\n")
RECURSIVE rstrip_newline(_)
rstrip_newline(s) ==
    IF s # <<>> /\ s[Len(s)] = "\n" THEN rstrip_newline(SubSeq(s, 1, Len(s) - 1)) ELSE s

\* The least number of digits of a code line that starts a block: \d{6,}
MinCodeDigits == 6

\* re.match(r"^\d{6,}[A-Za-z]?$", stripped)
IsBlockStart(stripped) ==
    LET n == RunLen(stripped, 1, UnicodeDigits)
    IN  /\ n >= MinCodeDigits
        /\ \/ Len(stripped) = n
           \/ Len(stripped) = n + 1 /\ stripped[n + 1] \in AsciiLetters

\* re.match(r"^\d+[A-Za-z]?$", first)
IsCodeLine(first) ==
    LET n == RunLen(first, 1, UnicodeDigits)
    IN  /\ n >= 1
        /\ \/ Len(first) = n
           \/ Len(first) = n + 1 /\ first[n + 1] \in AsciiLetters

\* The line ends the description:
\*   re.match(r"^[0-9]+\.[0-9]+(\s+[A-Z])?$", s) or re.match(r"^[0-9]+\s*$", s)
\*   or s in ("T", "N", "Y")
StopsDescription(s) ==
    LET n1 == RunLen(s, 1, AsciiDigits)
        n2 == RunLen(s, n1 + 2, AsciiDigits)
        e  == n1 + 1 + n2
        w  == RunLen(s, e + 1, Whitespace)
    IN  \/ /\ n1 >= 1
           /\ n1 + 1 <= Len(s) /\ s[n1 + 1] = "."
           /\ n2 >= 1
           /\ \/ Len(s) = e
              \/ w >= 1 /\ Len(s) = e + w + 1 /\ s[e + w + 1] \in UpperLetters
        \/ /\ n1 >= 1
           /\ \A k \in (n1 + 1)..Len(s) : s[k] \in Whitespace
        \/ s \in {<<"T">>, <<"N">>, <<"Y">>}

\* desc_lines: the stripped non-empty lines after the code line, up to the
\* first line that ends the description.
RECURSIVE desc_lines(_, _)
desc_lines(block_lines, i) ==
    IF i > Len(block_lines) THEN <<>>
    ELSE LET s == strip(block_lines[i])
         IN  IF s = <<>> THEN desc_lines(block_lines, i + 1)
             ELSE IF StopsDescription(s) THEN <<>>
             ELSE <<s>> \o desc_lines(block_lines, i + 1)

\* " ".join(desc_lines)
RECURSIVE join_space(_)
join_space(parts) ==
    IF parts = <<>> THEN <<>>
    ELSE IF Len(parts) = 1 THEN parts[1]
    ELSE parts[1] \o <<" ">> \o join_space(Tail(parts))

\* Variant: the number need not be followed by " T".
TMatchEndAnyNumber(s, i) ==
    LET n1 == RunLen(s, i, UnicodeDigits)
        n2 == RunLen(s, i + n1 + 1, UnicodeDigits)
    IN  IF n1 >= 1 /\ i + n1 <= Len(s) /\ s[i + n1] = "." /\ n2 >= 1
        THEN i + n1 + n2 ELSE 0

\* re.search(r"(\d+\.\d+)\s+T\b", s) matches with the number starting at i:
\* the last position of group 1, or 0 when there is no match at i.
TMatchEnd(s, i) ==
    LET n1 == RunLen(s, i, UnicodeDigits)
        n2 == RunLen(s, i + n1 + 1, UnicodeDigits)
        e  == i + n1 + n2
        w  == RunLen(s, e + 1, Whitespace)
        t  == e + w + 1
    IN  IF /\ n1 >= 1
           /\ i + n1 <= Len(s) /\ s[i + n1] = "."
           /\ n2 >= 1
           /\ w >= 1
           /\ t <= Len(s) /\ s[t] = "T"
           /\ (t = Len(s) \/ s[t + 1] \notin WordChars)
        THEN e ELSE 0

\* m.group(1) of the leftmost match in s, or None.
search_price(s) ==
    IF \E i \in 1..Len(s) : TMatchEnd(s, i) > 0
    THEN LET i == CHOOSE k \in 1..Len(s) :
                    TMatchEnd(s, k) > 0 /\ \A j \in 1..(k - 1) : TMatchEnd(s, j) = 0
         IN  Some(SubSeq(s, i, TMatchEnd(s, i)))
    ELSE None

\* float(text) of a text digits "." digits: the value, as the integer part
\* without leading zeros and the fraction without trailing zeros.
DigitValue(c) == IF c = "U+0663" THEN "3" ELSE c

RECURSIVE lstrip_zeros(_)
lstrip_zeros(d) ==
    IF Len(d) > 1 /\ Head(d) = "0" THEN lstrip_zeros(Tail(d)) ELSE d

RECURSIVE rstrip_zeros(_)
rstrip_zeros(d) ==
    IF d # <<>> /\ d[Len(d)] = "0" THEN rstrip_zeros(SubSeq(d, 1, Len(d) - 1)) ELSE d

to_float(text) ==
    LET d   == [i \in 1..Len(text) |-> DigitValue(text[i])]
        dot == find(d, ".")
    IN  [ip |-> lstrip_zeros(SubSeq(d, 1, dot - 1)),
         fp |-> rstrip_zeros(SubSeq(d, dot + 1, Len(d)))]

\* price_incl: float of the first match over the lines of the block, or None.
RECURSIVE price_incl(_, _)
price_incl(block_lines, i) ==
    IF i > Len(block_lines) THEN None
    ELSE LET m == search_price(strip(block_lines[i]))
         IN  IF m # None THEN Some(to_float(m[1]))
             ELSE price_incl(block_lines, i + 1)

(***************************************************************************)
(* items: the dict of flush_block, as the sequence of its values in        *)
(* insertion order, keyed by NORM_CODE.                                    *)
(***************************************************************************)
\* Variant: the duplicate test never fires.
HasKeyNever(its, norm_code) == FALSE

\* norm_code in items
HasKey(its, norm_code) == \E i \in 1..Len(its) : its[i].NORM_CODE = norm_code

\* items[norm_code] = rec
DictSet(its, norm_code, rec) ==
    IF \E i \in 1..Len(its) : its[i].NORM_CODE = norm_code
    THEN [i \in 1..Len(its) |-> IF its[i].NORM_CODE = norm_code THEN rec ELSE its[i]]
    ELSE Append(its, rec)

\* flush_block(block_lines), as the new value of items
flush_block(its, block_lines) ==
    IF block_lines = <<>> THEN its
    ELSE LET first == strip(block_lines[1])
             norm_code == normalize_code(first)
         IN  IF ~IsCodeLine(first) THEN its
             ELSE IF norm_code = <<>> THEN its
             ELSE IF HasKey(its, norm_code) THEN its
             ELSE DictSet(its, norm_code,
                          [CODE        |-> first,
                           NORM_CODE   |-> norm_code,
                           DESCRIPTION |-> join_space(desc_lines(block_lines, 2)),
                           PRICE_INCL  |-> price_incl(block_lines, 1)])

\* One iteration of the loop over the lines of the pages.
ReadStep(st, raw_line) ==
    LET line == rstrip_newline(raw_line)
        stripped == strip(line)
    IN  IF IsBlockStart(stripped)
        THEN [items |-> flush_block(st.items, st.current_block),
              current_block |-> <<stripped>>]
        ELSE IF st.current_block # <<>>
        THEN [items |-> st.items, current_block |-> Append(st.current_block, line)]
        ELSE st

RECURSIVE ReadAll(_, _)
ReadAll(st, lines) ==
    IF lines = <<>> THEN st ELSE ReadAll(ReadStep(st, Head(lines)), Tail(lines))

\* extract_prices_from_pdf over the text lines of the pages, in order.
extract_prices(lines) ==
    LET st == ReadAll([items |-> <<>>, current_block |-> <<>>], lines)
    IN  flush_block(st.items, st.current_block)

(***************************************************************************)
(* match_photos_to_prices.                                                 *)
(***************************************************************************)
\* price_map.get(key), price_map = {str(r["NORM_CODE"]): r for each row r}:
\* of several rows with one key the last one stays.  A missing PRICE_INCL
\* reads back from the DataFrame as None or NaN; both are the null None here.
price_map_get(df, key) ==
    IF \E i \in 1..Len(df) : df[i].NORM_CODE = key
    THEN Some(df[CHOOSE i \in 1..Len(df) :
                    df[i].NORM_CODE = key /\ \A j \in (i + 1)..Len(df) : df[j].NORM_CODE # key])
    ELSE None

\* range(1, 4)
TrimFirst == 1
TrimStop == 4
\* if len(norm) - trim < 4: break
TrimMinRemaining == 4

\* Variant: the trim block runs whatever the exact lookup found.
TrimGuardIgnoresExact(matched_row, norm) == norm # <<>>

\* Variant: the trim block runs for an empty code too.
TrimGuardIgnoresEmpty(matched_row, norm) == matched_row = None

\* if matched_row is None and norm:
TrimGuard(matched_row, norm) == matched_row = None /\ norm # <<>>

\* Variant: the floor is one digit lower.
TrimBreakLowerFloor(norm, trim) == Len(norm) - trim < TrimMinRemaining - 1

\* if len(norm) - trim < 4: break
TrimBreak(norm, trim) == Len(norm) - trim < TrimMinRemaining

\* Variant: the loop goes on after a candidate was found.
HitBreakNever(matched_row) == FALSE

\* if matched_row is not None: break
HitBreak(matched_row) == matched_row # None

\* for trim in range(1, 4): ... ; tried is the candidates looked up so far.
RECURSIVE trim_loop(_, _, _, _, _)
trim_loop(df, norm, trim, matched_row, tried) ==
    IF trim >= TrimStop THEN [matched_row |-> matched_row, tried |-> tried]
    ELSE IF TrimBreak(norm, trim) THEN [matched_row |-> matched_row, tried |-> tried]
    ELSE LET candidate == SubSeq(norm, 1, Len(norm) - trim)
             m == price_map_get(df, candidate)
         IN  IF HitBreak(m)
             THEN [matched_row |-> m, tried |-> Append(tried, candidate)]
             ELSE trim_loop(df, norm, trim + 1, m, Append(tried, candidate))

\* The dict appended to rows.
report_row(fname, norm, matched_row) ==
    IF matched_row # None
    THEN [PHOTO       |-> fname,
          CODE        |-> matched_row[1].CODE,
          DESCRIPTION |-> matched_row[1].DESCRIPTION,
          PRICE_INCL  |-> matched_row[1].PRICE_INCL,
          FILENAME    |-> fname]
    ELSE [PHOTO       |-> fname,
          CODE        |-> norm,
          DESCRIPTION |-> <<>>,
          PRICE_INCL  |-> None,
          FILENAME    |-> fname]

\* Variant: the row is put in front.
append_row_front(rs, row) == <<row>> \o rs

\* rows.append(row)
append_row(rs, row) == Append(rs, row)

\* One iteration of the loop over photo_names: the row, and what was looked up.
match_one(df, fname) ==
    LET norm  == extract_photo_norm_code(fname)
        exact == price_map_get(df, norm)
        enter == TrimGuard(exact, norm)
        res   == IF enter THEN trim_loop(df, norm, TrimFirst, exact, <<>>)
                 ELSE [matched_row |-> exact, tried |-> <<>>]
    IN  [row   |-> report_row(fname, norm, res.matched_row),
         trace |-> [norm    |-> norm,
                    exact   |-> exact # None,
                    entered |-> enter,
                    tried   |-> res.tried,
                    matched |-> res.matched_row]]

(***************************************************************************)
(* Inputs.                                                                 *)
(***************************************************************************)
\* Text lines of a price document.
Lines ==
    { <<"8", "6", "1", "3", "9", "0">>,
      <<"8", "6", "1", "3", "9", "0", "A">>,
      <<"8", "6", "1", "3", "9", "0", "1">>,
      <<"8", "6", "1", "3">>,
      <<"8", "6", "1", "0", "A">>,
      <<"U+0663", "U+0663", "U+0663", "U+0663", "U+0663", "U+0663">>,
      <<"B", "E", "A", "D">>,
      <<" ", "4", ".", "2", "2">>,
      <<" ", "4", ".", "5", "0", " ", "T">>,
      <<"N">>,
      <<"1", ".", "0", " ", "2", ".", "0", " ", "3", ".", "0", " ", "4", ".", "0", " ", "5", ".", "0", " ", "T">>,
      <<"1", ".", "0", " ", "T", " ", "2", ".", "0", " ", "3", ".", "0", " ", "4", ".", "0", " ", "5", ".", "0">>,
      <<>> }

\* Photo file names.
PhotoNames ==
    { <<"p", "h", "o", "t", "o", ".", "j", "p", "g">>,
      <<"8", "6", "1", "3", "9", "0", ".", "j", "p", "g">>,
      <<"8", "6", "1", "3", "9", "0", "1", "-", "2", "0", "P", "C", "S", ".", "j", "p", "g">>,
      <<"8", "6", "1", "3", "9", "0", "1", "2", ".", "j", "p", "g">>,
      <<"8", "6", "1", "3", "9", "0", "1", "2", "3", "A", ".", "j", "p", "g">>,
      <<"8", "6", "1", "3", "9", "0", "1", "2", "3", "4", ".", "j", "p", "g">>,
      <<"1", "2", "a", "b", "3", "4", ".", "j", "p", "g">>,
      <<"i", "t", "e", "m", "-", "8", "6", "1", "3", "9", "0", ".", "j", "p", "g">>,
      <<"1", "2", "3", "4", "5", ".", "j", "p", "g">>,
      <<"8", "6", "1", "3", "9", "1", ".", "j", "p", "g">> }

\* Characters of the short strings given to the helpers.
PureAlphabet == {"0", "1", "a", "-", "."}

PureInputs == SeqsUpTo(PureAlphabet, MaxNameLen) \cup PhotoNames

\* The catalogs extract_prices_from_pdf returns for documents of few lines.
Catalogs == {extract_prices(src) : src \in SeqsUpTo(Lines, MaxCatalogLines)}

(***************************************************************************)
(* Specification of extract_prices_from_pdf.                               *)
(***************************************************************************)
InitExtract ==
    /\ pc = "reading"
    /\ source = <<>>
    /\ current_block = <<>>
    /\ items = <<>>
    /\ price_df = <<>>
    /\ photo_names = <<>>
    /\ rows = <<>>
    /\ trace = <<>>
    /\ fn_name = "none"
    /\ fn_in = <<>>
    /\ fn_out = <<>>

\* for raw_line in lines: ...
ReadLine(raw_line) ==
    /\ pc = "reading"
    /\ Len(source) < MaxLines
    /\ LET st == ReadStep([items |-> items, current_block |-> current_block], raw_line)
       IN  /\ items' = st.items
           /\ current_block' = st.current_block
    /\ source' = Append(source, raw_line)
    /\ UNCHANGED <<pc, price_df, photo_names, rows, trace, fn_name, fn_in, fn_out>>

\* flush_block(current_block); df = pd.DataFrame(items.values()); return df
ReturnCatalog ==
    /\ pc = "reading"
    /\ items' = flush_block(items, current_block)
    /\ price_df' = items'
    /\ pc' = "built"
    /\ UNCHANGED <<source, current_block, photo_names, rows, trace, fn_name, fn_in, fn_out>>

NextExtract ==
    \/ \E raw_line \in Lines : ReadLine(raw_line)
    \/ ReturnCatalog

SpecExtract == InitExtract /\ [][NextExtract]_vars

(***************************************************************************)
(* Specification of match_photos_to_prices over a built catalog.           *)
(***************************************************************************)
Init ==
    /\ pc = "matching"
    /\ source = <<>>
    /\ current_block = <<>>
    /\ items = <<>>
    /\ price_df \in Catalogs
    /\ photo_names = <<>>
    /\ rows = <<>>
    /\ trace = <<>>
    /\ fn_name = "none"
    /\ fn_in = <<>>
    /\ fn_out = <<>>

\* for fname in photo_names: ...
MatchPhoto(fname) ==
    /\ pc = "matching"
    /\ Len(photo_names) < MaxPhotos
    /\ LET r == match_one(price_df, fname)
       IN  /\ rows' = append_row(rows, r.row)
           /\ trace' = Append(trace, r.trace)
    /\ photo_names' = Append(photo_names, fname)
    /\ UNCHANGED <<pc, source, current_block, items, price_df, fn_name, fn_in, fn_out>>

\* return pd.DataFrame(rows)
ReturnReport ==
    /\ pc = "matching"
    /\ pc' = "matched"
    /\ UNCHANGED <<source, current_block, items, price_df, photo_names, rows, trace,
                   fn_name, fn_in, fn_out>>

Next ==
    \/ \E fname \in PhotoNames : MatchPhoto(fname)
    \/ ReturnReport

Spec == Init /\ [][Next]_vars

(***************************************************************************)
(* Specification of the helpers on their own.                              *)
(***************************************************************************)
InitPure ==
    /\ pc = "pure"
    /\ source = <<>>
    /\ current_block = <<>>
    /\ items = <<>>
    /\ price_df = <<>>
    /\ photo_names = <<>>
    /\ rows = <<>>
    /\ trace = <<>>
    /\ fn_name = "none"
    /\ fn_in \in PureInputs
    /\ fn_out = <<>>

\* normalize_code(fn_in), then normalize_code of what it returned
CallNormalize ==
    /\ pc = "pure"
    /\ fn_name \in {"none", "normalize_code"}
    /\ Len(fn_out) < 2
    /\ fn_out' = Append(fn_out,
                        normalize_code(IF fn_out = <<>> THEN fn_in ELSE fn_out[Len(fn_out)]))
    /\ fn_name' = "normalize_code"
    /\ UNCHANGED <<pc, source, current_block, items, price_df, photo_names, rows,
                   trace, fn_in>>

\* extract_photo_norm_code(fn_in)
CallExtract ==
    /\ pc = "pure"
    /\ fn_name = "none"
    /\ fn_out' = <<extract_photo_norm_code(fn_in)>>
    /\ fn_name' = "extract_photo_norm_code"
    /\ UNCHANGED <<pc, source, current_block, items, price_df, photo_names, rows,
                   trace, fn_in>>

NextPure ==
    \/ CallNormalize
    \/ CallExtract

SpecPure == InitPure /\ [][NextPure]_vars

(***************************************************************************)
(* Vocabulary of the properties.                                           *)
(***************************************************************************)
DigitsOf(s) == SelectSeq(s, LAMBDA c : c \in AsciiDigits)

IsPrefixOf(k, s) == Len(k) <= Len(s) /\ \A i \in 1..Len(k) : k[i] = s[i]

Keys(df) == {df[i].NORM_CODE : i \in 1..Len(df)}

RecordOf(df, k) == df[CHOOSE i \in 1..Len(df) : df[i].NORM_CODE = k]

\* The field pattern of a report row: which of CODE, DESCRIPTION, PRICE_INCL are blank.
Shape(row) == <<row.CODE = <<>>, row.DESCRIPTION = <<>>, row.PRICE_INCL = None>>

NoMatchRow(fname, code) ==
    [PHOTO |-> fname, CODE |-> code, DESCRIPTION |-> <<>>, PRICE_INCL |-> None,
     FILENAME |-> fname]

CarriesRecord(row, r) ==
    /\ row.CODE = r.CODE
    /\ row.DESCRIPTION = r.DESCRIPTION
    /\ row.PRICE_INCL = r.PRICE_INCL

\* The catalog keys reachable from code by removing 1 to 3 trailing digits
\* and keeping at least 4.
TrimPrefixes(df, code) ==
    {k \in Keys(df) : /\ IsPrefixOf(k, code)
                      /\ Len(k) < Len(code)
                      /\ Len(code) - Len(k) <= 3
                      /\ Len(k) >= 4}

Longest(S) == CHOOSE k \in S : \A m \in S : Len(m) <= Len(k)

Min(a, b) == IF a <= b THEN a ELSE b

\* Indices of the lines of src that start a block, and the block that starts at i.
BlockStarts(src) == {i \in 1..Len(src) : IsBlockStart(strip(src[i]))}

BlockAt(src, i) ==
    LET later == {j \in BlockStarts(src) : j > i}
        last  == IF later = {} THEN Len(src)
                 ELSE (CHOOSE j \in later : \A m \in later : j <= m) - 1
    IN  <<strip(src[i])>> \o SubSeq(src, i + 1, last)

\* The first block of src whose code normalizes to n.
FirstBlock(src, n) ==
    LET with == {i \in BlockStarts(src) : DigitsOf(strip(src[i])) = n}
    IN  BlockAt(src, CHOOSE i \in with : \A m \in with : i <= m)

BlockCodes(src) == {DigitsOf(strip(src[i])) : i \in BlockStarts(src)} \ {<<>>}

\* s[i..e] is a decimal number followed by whitespace and a T that ends a word.
IsTNumber(s, i, e) ==
    /\ 1 <= i /\ e <= Len(s)
    /\ \E d \in (i + 1)..(e - 1) :
          /\ s[d] = "."
          /\ \A k \in (i..e) \ {d} : s[k] \in UnicodeDigits
    /\ \E t \in (e + 2)..Len(s) :
          /\ s[t] = "T"
          /\ \A k \in (e + 1)..(t - 1) : s[k] \in Whitespace
          /\ (t = Len(s) \/ s[t + 1] \notin WordChars)

HasTNumber(s) == \E i, e \in 1..Len(s) : IsTNumber(s, i, e)

\* The leftmost such number of s.
FirstTNumber(s) ==
    LET i == CHOOSE a \in 1..Len(s) :
                /\ \E e \in 1..Len(s) : IsTNumber(s, a, e)
                /\ \A b \in 1..(a - 1) : \A e \in 1..Len(s) : ~IsTNumber(s, b, e)
        e == CHOOSE c \in 1..Len(s) : IsTNumber(s, i, c)
    IN  SubSeq(s, i, e)

\* The whitespace-delimited tokens of a line, and those of a block of lines.
RECURSIVE Tokens(_)
Tokens(s) ==
    LET u == strip(s)
    IN  IF u = <<>> THEN <<>>
        ELSE LET n == IF \E i \in 1..Len(u) : u[i] \in Whitespace
                      THEN (CHOOSE i \in 1..Len(u) :
                              u[i] \in Whitespace /\ \A j \in 1..(i - 1) : u[j] \notin Whitespace) - 1
                      ELSE Len(u)
             IN  <<SubSeq(u, 1, n)>> \o Tokens(SubSeq(u, n + 1, Len(u)))

IsDecimalToken(tok) ==
    \E d \in 2..(Len(tok) - 1) :
        tok[d] = "." /\ \A k \in (1..Len(tok)) \ {d} : tok[k] \in UnicodeDigits

RECURSIVE DecimalTokens(_)
DecimalTokens(block) ==
    IF block = <<>> THEN <<>>
    ELSE SelectSeq(Tokens(Head(block)), IsDecimalToken) \o DecimalTokens(Tail(block))

\* The leading run of digits of s, and a longest run of digits of s.
LeadingDigits(s) ==
    SubSeq(s, 1, Cardinality({i \in 1..Len(s) : \A j \in 1..i : s[j] \in AsciiDigits}))

LongestDigitRun(s) ==
    LET runs == {<<a, b>> \in (1..Len(s)) \X (1..Len(s)) :
                    a <= b /\ \A k \in a..b : s[k] \in AsciiDigits}
    IN  IF runs = {} THEN <<>>
        ELSE LET r == CHOOSE x \in runs :
                        /\ \A y \in runs : y[2] - y[1] <= x[2] - x[1]
                        /\ \A y \in runs : y[2] - y[1] = x[2] - x[1] => x[1] <= y[1]
             IN  SubSeq(s, r[1], r[2])

\* The part of s before its first hyphen.
BeforeHyphen(s) ==
    SubSeq(s, 1, Cardinality({i \in 1..Len(s) : \A j \in 1..i : s[j] # "-"}))

(***************************************************************************)
(* C1 as stated: the built catalog holds exactly one record for the        *)
(* normalized code of every code line of the source (digits, possibly with *)
(* one letter after them), such as the lines 8610A and 8610B.              *)
(***************************************************************************)
C1_OneRecordPerCodeLine ==
    pc = "built" =>
        \A i \in 1..Len(source) :
            LET s == strip(source[i])
            IN  IsCodeLine(s) /\ DigitsOf(s) # <<>> =>
                    Cardinality({k \in 1..Len(price_df) :
                                    price_df[k].NORM_CODE = DigitsOf(s)}) = 1

(***************************************************************************)
(* C1 amended: the built catalog holds exactly one record for every        *)
(* non-empty normalized code of a line that starts a block (6 or more      *)
(* digits, possibly one letter after them), no other record, and the       *)
(* record of a code is the one of the first block with that normalized     *)
(* code: its code line, description and price.                             *)
(***************************************************************************)
C1_FirstBlockWins ==
    pc = "built" =>
        /\ \A n \in BlockCodes(source) :
              /\ Cardinality({k \in 1..Len(price_df) : price_df[k].NORM_CODE = n}) = 1
              /\ LET b == FirstBlock(source, n)
                 IN  RecordOf(price_df, n) =
                        [CODE        |-> b[1],
                         NORM_CODE   |-> n,
                         DESCRIPTION |-> join_space(desc_lines(b, 2)),
                         PRICE_INCL  |-> price_incl(b, 1)]
        /\ Keys(price_df) \subseteq BlockCodes(source)

\* Two blocks with one normalized code and different content were read.
C1_Witness ==
    /\ pc = "built"
    /\ \E i, j \in BlockStarts(source) :
          /\ i < j
          /\ DigitsOf(strip(source[i])) = DigitsOf(strip(source[j]))
          /\ DigitsOf(strip(source[i])) # <<>>
          /\ BlockAt(source, i) # BlockAt(source, j)
          /\ Len(BlockAt(source, i)) > 1

(***************************************************************************)
(* C2: a photo whose extracted code is a catalog key gets the CODE,        *)
(* DESCRIPTION and PRICE_INCL of the record with that key, and no trimmed  *)
(* candidate is looked up for it.                                          *)
(***************************************************************************)
C2_ExactMatchWins ==
    \A i \in 1..Len(rows) :
        trace[i].norm \in Keys(price_df) =>
            /\ CarriesRecord(rows[i], RecordOf(price_df, trace[i].norm))
            /\ trace[i].tried = <<>>
            /\ ~trace[i].entered

\* An exact match while a shorter prefix of the code is a key too.
C2_Witness ==
    \E i \in 1..Len(rows) :
        /\ trace[i].norm \in Keys(price_df)
        /\ TrimPrefixes(price_df, trace[i].norm) # {}

(***************************************************************************)
(* C3: every trimmed candidate looked up has at least 4 digits and at most *)
(* 3 digits fewer than the extracted code; for the code 12345 the only     *)
(* candidate is 1234; a match found by trimming has a key of 4 or more     *)
(* digits.                                                                 *)
(***************************************************************************)
C3_TrimFloor ==
    \A i \in 1..Len(rows) :
        /\ \A j \in 1..Len(trace[i].tried) :
              /\ Len(trace[i].tried[j]) >= 4
              /\ Len(trace[i].tried[j]) >= Len(trace[i].norm) - 3
        /\ trace[i].norm = <<"1", "2", "3", "4", "5">> =>
              trace[i].tried = << <<"1", "2", "3", "4">> >>
        /\ (~trace[i].exact /\ trace[i].matched # None) =>
              Len(trace[i].matched[1].NORM_CODE) >= 4

\* The floor cut the trimming short: fewer than 3 candidates, none found.
C3_Witness ==
    \E i \in 1..Len(rows) :
        /\ trace[i].entered
        /\ trace[i].matched = None
        /\ Len(trace[i].tried) \in {1, 2}
        /\ Len(trace[i].tried[Len(trace[i].tried)]) = 4

(***************************************************************************)
(* C4: a photo whose name holds no digit gets the no-match row (empty      *)
(* code and description, null price, no record) and the trim block is not  *)
(* entered for it.                                                         *)
(***************************************************************************)
C4_NoDigitNoMatch ==
    \A i \in 1..Len(rows) :
        (\A k \in 1..Len(photo_names[i]) : photo_names[i][k] \notin AsciiDigits) =>
            /\ rows[i] = NoMatchRow(photo_names[i], <<>>)
            /\ trace[i].matched = None
            /\ ~trace[i].entered
            /\ trace[i].tried = <<>>

\* A name without digits was matched against a catalog that has records.
C4_Witness ==
    \E i \in 1..Len(rows) :
        /\ \A k \in 1..Len(photo_names[i]) : photo_names[i][k] \notin AsciiDigits
        /\ price_df # <<>>

(***************************************************************************)
(* C5: the report has one row per photo iterated, row i is the row of      *)
(* photo i, and its content is fixed by that name and the catalog: equal   *)
(* names get equal rows, and row i is the row the name gets on its own.    *)
(***************************************************************************)
C5_OneRowPerPhotoInOrder ==
    /\ Len(rows) = Len(photo_names)
    /\ \A i \in 1..Len(rows) :
          /\ rows[i].PHOTO = photo_names[i]
          /\ rows[i].FILENAME = photo_names[i]
          /\ rows[i] = match_one(price_df, photo_names[i]).row
    /\ \A i, j \in 1..Len(rows) :
          photo_names[i] = photo_names[j] => rows[i] = rows[j]

\* A returned report of a matched photo, an unmatched one and a repeated name.
C5_Witness ==
    /\ pc = "matched"
    /\ Len(rows) >= 2
    /\ \E i, j \in 1..Len(rows) :
          /\ i < j
          /\ trace[i].matched = None
          /\ trace[j].matched # None
          /\ photo_names[i] # photo_names[j]

(***************************************************************************)
(* C6 as stated: the extracted code is the leading run of digits of the    *)
(* name without extension cut at its first hyphen, and, when there is no   *)
(* leading digit, the longest run of digits anywhere in the name.          *)
(***************************************************************************)
C6_LeadingRunOrLongestRun ==
    fn_name = "extract_photo_norm_code" =>
        LET stem == splitext_root(fn_in)
            lead == LeadingDigits(BeforeHyphen(stem))
        IN  fn_out[1] = IF lead # <<>> THEN lead ELSE LongestDigitRun(stem)

(***************************************************************************)
(* C6 amended: the extracted code is all the digits, in order, of the name *)
(* without extension cut at its first hyphen; there is nothing else.       *)
(***************************************************************************)
C6_AllDigitsBeforeHyphen ==
    fn_name = "extract_photo_norm_code" =>
        fn_out[1] = DigitsOf(BeforeHyphen(splitext_root(fn_in)))

\* 12ab34.jpg gave 1234.
C6_Witness ==
    /\ fn_name = "extract_photo_norm_code"
    /\ fn_in = <<"1", "2", "a", "b", "3", "4", ".", "j", "p", "g">>
    /\ fn_out = << <<"1", "2", "3", "4">> >>

(***************************************************************************)
(* C7 as stated: every record of the catalog comes from a block with at    *)
(* least 5 decimal-number tokens and its PRICE_INCL is the 5th of them.    *)
(***************************************************************************)
C7_FifthDecimalIsPrice ==
    pc = "built" =>
        \A k \in 1..Len(price_df) :
            LET d == DecimalTokens(FirstBlock(source, price_df[k].NORM_CODE))
            IN  /\ Len(d) >= 5
                /\ price_df[k].PRICE_INCL = Some(to_float(d[5]))

(***************************************************************************)
(* C7 amended: the price of a record is the first decimal number of its    *)
(* block that is followed by whitespace and a T ending a word (first line  *)
(* that holds one, leftmost in the line), and is null when the block has   *)
(* none; a block yields its record whatever the count of its decimal       *)
(* numbers.                                                                *)
(***************************************************************************)
C7_PriceIsFirstTNumber ==
    pc = "built" =>
        \A n \in BlockCodes(source) :
            /\ n \in Keys(price_df)
            /\ LET b == FirstBlock(source, n)
                   p == RecordOf(price_df, n).PRICE_INCL
                   with == {j \in 1..Len(b) : HasTNumber(strip(b[j]))}
               IN  IF with = {} THEN p = None
                   ELSE LET j == CHOOSE a \in with : \A m \in with : a <= m
                        IN  p = Some(to_float(FirstTNumber(strip(b[j]))))

\* A record with a price whose block has fewer than 5 decimal numbers, one of
\* them, without T, before the price.
C7_Witness ==
    /\ pc = "built"
    /\ \E k \in 1..Len(price_df) :
          LET d == DecimalTokens(FirstBlock(source, price_df[k].NORM_CODE))
          IN  /\ price_df[k].PRICE_INCL # None
              /\ Len(d) \in 2..4
              /\ price_df[k].PRICE_INCL # Some(to_float(d[1]))

(***************************************************************************)
(* C8 as stated: a row of the no-match branch never has the field pattern  *)
(* (which of CODE, DESCRIPTION, PRICE_INCL are blank) of a row of a        *)
(* matched photo of the same report.                                       *)
(***************************************************************************)
C8_NoMatchRowsDistinguishable ==
    \A i, j \in 1..Len(rows) :
        (trace[i].matched = None /\ trace[j].matched # None) =>
            Shape(rows[i]) # Shape(rows[j])

(***************************************************************************)
(* C9: normalize_code of what normalize_code returned is that same string, *)
(* and normalize_code returns a string of digits unchanged.                *)
(***************************************************************************)
C9_NormalizeIdempotent ==
    fn_name = "normalize_code" =>
        /\ Len(fn_out) = 2 => fn_out[2] = fn_out[1]
        /\ (\A k \in 1..Len(fn_in) : fn_in[k] \in AsciiDigits) => fn_out[1] = fn_in

\* Normalized twice, from a string with digits and other characters.
C9_Witness ==
    /\ fn_name = "normalize_code"
    /\ Len(fn_out) = 2
    /\ fn_out[1] # <<>>
    /\ fn_out[1] # fn_in

(***************************************************************************)
(* C10: for an extracted code that is no catalog key the candidates looked *)
(* up are the code less 1, 2, 3 trailing digits, in that order, up to the  *)
(* first that is a key; the row carries the record of the longest proper   *)
(* prefix of the code that is a key, has at least 4 digits and is at most  *)
(* 3 digits shorter, and is the no-match row when there is none.           *)
(***************************************************************************)
C10_TrimLongestPrefix ==
    \A i \in 1..Len(rows) :
        trace[i].norm \notin Keys(price_df) =>
            LET code == trace[i].norm
                P == TrimPrefixes(price_df, code)
                n == IF P # {} THEN Len(code) - Len(Longest(P))
                     ELSE IF Len(code) < 5 THEN 0
                     ELSE Min(3, Len(code) - 4)
            IN  /\ trace[i].tried = [t \in 1..n |-> SubSeq(code, 1, Len(code) - t)]
                /\ IF P = {} THEN rows[i] = NoMatchRow(photo_names[i], code)
                   ELSE CarriesRecord(rows[i], RecordOf(price_df, Longest(P)))

\* Two prefixes of the code are keys and the code is not.
C10_Witness ==
    \E i \in 1..Len(rows) :
        /\ trace[i].norm \notin Keys(price_df)
        /\ Cardinality(TrimPrefixes(price_df, trace[i].norm)) >= 2

=============================================================================
